---------------------------- MODULE Spec2Model ----------------------------
(***************************************************************************)
(* Blendrendest (src/__init__.py): the render-lifecycle state machine, the *)
(* cost model and the auto-calibration loop of the render time estimator,  *)
(* the activity table loaded at import and the panel that shows both.      *)
(*                                                                         *)
(* Python floats are modelled as exact rationals <<n, d>> (d > 0, lowest   *)
(* terms); None is the empty tuple; strings are TLA+ strings built the way *)
(* the f-strings build them.  All reads of time.time() inside one handler  *)
(* call see the same instant, the handler's parameter t.  The clock now    *)
(* advances while a frame renders (between render_pre and render_post).    *)
(***************************************************************************)
EXTENDS Integers, Sequences, FiniteSets, TLC

(***************************************************************************)
(* Bounds of the model.                                                    *)
(***************************************************************************)
\* the frame range lies in 1..MaxFrame; a still can be one frame beyond it
MaxFrame == 2
\* at most MaxTicks frames take measurable time
MaxTicks == 2
\* at most MaxRenders renders are started (commands and native starts)
MaxRenders == 2
\* the "activities" list of a configuration document has at most MaxItems items
MaxItems == 2

(***************************************************************************)
(* Float arithmetic as exact rationals.                                    *)
(***************************************************************************)
Abs(n) == IF n < 0 THEN -n ELSE n

RECURSIVE GCD(_, _)
GCD(a, b) == IF b = 0 THEN a ELSE GCD(b, a % b)

Q(n, d) ==
    LET s == IF d < 0 THEN -1 ELSE 1
        g == GCD(Abs(n), Abs(d))
    IN  <<(s * n) \div g, (s * d) \div g>>

QInt(i) == <<i, 1>>

\* the operations reduce by common factors before they multiply, so that the
\* intermediate products stay small
QAdd(a, b) ==
    LET g == GCD(a[2], b[2])
    IN  Q(a[1] * (b[2] \div g) + b[1] * (a[2] \div g), (a[2] \div g) * b[2])

QSub(a, b) ==
    LET g == GCD(a[2], b[2])
    IN  Q(a[1] * (b[2] \div g) - b[1] * (a[2] \div g), (a[2] \div g) * b[2])

QMul(a, b) ==
    LET g1 == GCD(Abs(a[1]), b[2])
        g2 == GCD(Abs(b[1]), a[2])
    IN  Q((a[1] \div g1) * (b[1] \div g2), (a[2] \div g2) * (b[2] \div g1))

\* a / b for b # 0
QDiv(a, b) == QMul(a, IF b[1] < 0 THEN <<-b[2], -b[1]>> ELSE <<b[2], b[1]>>)

QLe(a, b) ==
    LET g == GCD(a[2], b[2])
    IN  a[1] * (b[2] \div g) <= b[1] * (a[2] \div g)

QLt(a, b) ==
    LET g == GCD(a[2], b[2])
    IN  a[1] * (b[2] \div g) < b[1] * (a[2] \div g)

QMax(a, b) == IF QLt(a, b) THEN b ELSE a

QMin(a, b) == IF QLt(b, a) THEN b ELSE a

\* int(x): truncation towards zero
QTrunc(a) == IF a[1] >= 0 THEN a[1] \div a[2] ELSE -((-a[1]) \div a[2])

None == << >>

(***************************************************************************)
(* Time formatting.                                                        *)
(***************************************************************************)
\* f"{n:02}"
Pad2(n) == IF n >= 0 /\ n < 10 THEN "0" \o ToString(n) ELSE ToString(n)

format_time_HHMMSS(sec) ==
    LET s0      == QTrunc(sec)
        days    == s0 \div 86400
        s1      == s0 % 86400
        hours   == s1 \div 3600
        s2      == s1 % 3600
        minutes == s2 \div 60
        seconds == s2 % 60
    IN  IF days > 0
        THEN ToString(days) \o "d " \o Pad2(hours) \o ":" \o Pad2(minutes)
                 \o ":" \o Pad2(seconds)
        ELSE Pad2(hours) \o ":" \o Pad2(minutes) \o ":" \o Pad2(seconds)

\* f"{n} unit{'s' if n != 1 else ''}"
Plural(n, unit) ==
    ToString(n) \o " " \o unit \o (IF n # 1 THEN "s" ELSE "")

RECURSIVE Join(_)
Join(parts) ==
    IF Len(parts) = 0 THEN ""
    ELSE IF Len(parts) = 1 THEN parts[1]
    ELSE parts[1] \o ", " \o Join(Tail(parts))

format_time_human(sec) ==
    LET s0      == QTrunc(sec)
        days    == s0 \div 86400
        s1      == s0 % 86400
        hours   == s1 \div 3600
        s2      == s1 % 3600
        minutes == s2 \div 60
        seconds == s2 % 60
        p1      == IF days # 0 THEN <<Plural(days, "day")>> ELSE << >>
        p2      == IF hours # 0 THEN Append(p1, Plural(hours, "hour")) ELSE p1
        p3      == IF minutes # 0 THEN Append(p2, Plural(minutes, "minute")) ELSE p2
        p4      == IF seconds # 0 \/ Len(p3) = 0
                   THEN Append(p3, Plural(seconds, "second")) ELSE p3
    IN  Join(p4)

(***************************************************************************)
(* Activity messages.  A JSON value is a record of its type and its number *)
(* or string; "missing" is a key the mapping does not have.  A document is *)
(* what open() and json.load() find at time_activities.json.               *)
(***************************************************************************)
JInt(n) == [t |-> "int", n |-> n, s |-> ""]

JStr(s) == [t |-> "str", n |-> 0, s |-> s]

JNull == [t |-> "null", n |-> 0, s |-> ""]

JMissing == [t |-> "missing", n |-> 0, s |-> ""]

\* a mapping item of the "activities" list
JItem(threshold, suggestion) ==
    [t |-> "object", threshold |-> threshold, suggestion |-> suggestion]

\* an item that is not a mapping (a bare number)
JScalarItem ==
    [t |-> "number", threshold |-> JMissing, suggestion |-> JMissing]

\* the file: absent, not JSON, or a JSON value; a mapping holds the value of
\* its "activities" key ("missing", "null" or "array") and the array's items
JDoc(t, activities, items) ==
    [t |-> t, activities |-> activities, items |-> items]

\* d.get(key, default)
JGet(v, default) == IF v.t = "missing" THEN default ELSE v

\* Python truthiness of a JSON value
JTruthy(v) ==
    IF v.t = "int" THEN v.n # 0
    ELSE IF v.t = "str" THEN v.s # ""
    ELSE FALSE

default_activities ==
    << <<JInt(5), "Instant Render!">>,
       <<JInt(30), "Perfect time to stretch">>,
       <<JInt(60), "Grab a glass of water">>,
       <<JInt(300), "Do some quick desk exercises">>,
       <<JInt(600), "Go for a short walk">>,
       <<JInt(1800), "Watch an episode of your favorite show">>,
       <<JInt(3600), "Take a power nap">>,
       <<JInt(7200), "Go out for lunch">>,
       <<JInt(86400),
         "This might take a while - consider optimizing your scene">> >>

\* the string thresholds of the model, in lexicographic order
StrThresholds == <<"10">>

\* str < str
StrLess(a, b) ==
    LET Index(x) == CHOOSE i \in 1..Len(StrThresholds) : StrThresholds[i] = x
    IN  Index(a) < Index(b)

\* a < b between two thresholds of the same type
ThresholdLess(a, b) ==
    IF a.t = "int" THEN a.n < b.n ELSE StrLess(a.s, b.s)

\* list.sort(key=lambda x: x[0]): stable, ascending; x goes before the first
\* entry it is below
RECURSIVE SortInsert(_, _)
SortInsert(sorted, x) ==
    IF Len(sorted) = 0 THEN <<x>>
    ELSE IF ThresholdLess(x[1], Head(sorted)[1]) THEN <<x>> \o sorted
    ELSE <<Head(sorted)>> \o SortInsert(Tail(sorted), x)

RECURSIVE SortByThreshold(_)
SortByThreshold(activities) ==
    IF Len(activities) = 0 THEN << >>
    ELSE SortInsert(SortByThreshold(SubSeq(activities, 1, Len(activities) - 1)),
                    activities[Len(activities)])

\* the entries the loop of _load_time_activities appends, in file order
kept_activities(items) ==
    LET threshold(item)  == JGet(item.threshold, JInt(0))
        suggestion(item) == JGet(item.suggestion, JStr(""))
        keep(item)       == JTruthy(threshold(item)) /\ JTruthy(suggestion(item))
        kept             == SelectSeq(items, keep)
    IN  [i \in 1..Len(kept) |-> <<threshold(kept[i]), suggestion(kept[i]).s>>]

\* the result of _load_time_activities: the exception that leaves it ("" when
\* it returns) and the table it returns
_load_time_activities(doc) ==
    IF doc.t = "absent" \/ doc.t = "invalid"
    THEN [exc |-> "", table |-> default_activities]
    ELSE IF doc.t # "object"
    \* data.get on a value that is not a dict
    THEN [exc |-> "AttributeError", table |-> << >>]
    ELSE IF doc.activities = "null"
    \* for item in None
    THEN [exc |-> "TypeError", table |-> << >>]
    ELSE
      LET items == IF doc.activities = "missing" THEN << >> ELSE doc.items
          activities == kept_activities(items)
      IN  IF \E i \in 1..Len(items) : items[i].t # "object"
          \* item.get on a value that is not a dict
          THEN [exc |-> "AttributeError", table |-> << >>]
          ELSE IF \E i, j \in 1..Len(activities) :
                      activities[i][1].t # activities[j][1].t
          \* '<' between int and str inside sort
          THEN [exc |-> "TypeError", table |-> << >>]
          ELSE [exc |-> "",
                table |-> IF Len(activities) # 0
                          THEN SortByThreshold(activities)
                          ELSE default_activities]

\* the loop of get_activity_for_time from entry i on, with the activity
\* chosen so far
RECURSIVE activity_scan(_, _, _, _)
activity_scan(table, seconds, i, activity) ==
    IF i > Len(table) THEN [exc |-> "", value |-> activity]
    ELSE IF table[i][1].t # "int"
    \* '>=' between float and str
    THEN [exc |-> "TypeError", value |-> ""]
    ELSE IF QLe(QInt(table[i][1].n), seconds)
    THEN activity_scan(table, seconds, i + 1, table[i][2])
    ELSE [exc |-> "", value |-> activity]

\* Faulty variant: only negative times count as instant.
get_activity_for_time_zero_looked_up(table, seconds) ==
    IF QLt(seconds, QInt(0))
    THEN [exc |-> "", value |-> "Instant render!"]
    ELSE activity_scan(table, seconds, 1, table[1][2])

get_activity_for_time(table, seconds) ==
    IF QLe(seconds, QInt(0))
    THEN [exc |-> "", value |-> "Instant render!"]
    ELSE activity_scan(table, seconds, 1, table[1][2])

(***************************************************************************)
(* Cost model.  A scene is a record: the render settings, the complexity   *)
(* signals get_scene_complexity reads, and the frame range.                *)
(***************************************************************************)
get_scene_complexity(sc) ==
    LET res_x == QMul(QInt(sc.resolution_x), Q(sc.resolution_percentage, 100))
        res_y == QMul(QInt(sc.resolution_y), Q(sc.resolution_percentage, 100))
    IN  [mesh_count   |-> sc.mesh_count,
         light_count  |-> sc.light_count,
         volume_count |-> sc.volume_count,
         total_verts  |-> sc.total_verts,
         res_x        |-> res_x,
         res_y        |-> res_y,
         pixel_count  |-> QMul(res_x, res_y)]

baseline_pixels == 1920 * 1080

estimate_cycles_render_time(sc, complexity, cal) ==
    LET samples           == QInt(sc.samples)
        adaptive_factor   == QAdd(Q(1, 2), QMul(sc.adaptive_threshold, QInt(5)))
        effective_samples == IF sc.use_adaptive_sampling
                             THEN QMul(samples, adaptive_factor) ELSE samples
        fast_gi_factor    == IF sc.use_fast_gi THEN Q(7, 10) ELSE QInt(1)
        denoiser_factor   == IF sc.use_denoising THEN Q(9, 10) ELSE QInt(1)
        resolution_factor == QDiv(complexity.pixel_count, QInt(baseline_pixels))
        object_factor     == QAdd(QAdd(QInt(1), Q(complexity.mesh_count, 100)),
                                  Q(complexity.total_verts, 1000000))
        light_factor      == QAdd(QInt(1), Q(complexity.light_count * 5, 100))
        volume_factor     == QAdd(QInt(1), Q(complexity.volume_count * 3, 10))
        estimated_time    ==
            QMul(QMul(QMul(QMul(QMul(QMul(QMul(
                QDiv(effective_samples, QInt(100)),
                resolution_factor), object_factor), light_factor),
                volume_factor), fast_gi_factor), denoiser_factor), cal)
    IN  QMax(QInt(1), estimated_time)

\* Faulty variant: the estimate is returned without its floor.
estimate_eevee_render_time_unfloored(sc, complexity, cal) ==
    LET samples            == QInt(sc.taa_render_samples)
        resolution_factor  == QDiv(complexity.pixel_count, QInt(baseline_pixels))
        object_factor      == QAdd(QInt(1), Q(complexity.mesh_count * 5, 1000))
        light_factor       == QAdd(QInt(1), Q(complexity.light_count * 2, 100))
        volumetrics_factor == IF sc.use_volumetric_lights THEN Q(13, 10) ELSE QInt(1)
        ssr_factor         == IF sc.use_ssr THEN Q(115, 100) ELSE QInt(1)
        ao_factor          == IF sc.use_gtao THEN Q(105, 100) ELSE QInt(1)
        calibration        == QMul(cal, Q(1, 10))
    IN  QMul(QMul(QMul(QMul(QMul(QMul(QMul(
            QDiv(samples, QInt(64)),
            resolution_factor), object_factor), light_factor),
            volumetrics_factor), ssr_factor), ao_factor), calibration)

estimate_eevee_render_time(sc, complexity, cal) ==
    LET samples            == QInt(sc.taa_render_samples)
        resolution_factor  == QDiv(complexity.pixel_count, QInt(baseline_pixels))
        object_factor      == QAdd(QInt(1), Q(complexity.mesh_count * 5, 1000))
        light_factor       == QAdd(QInt(1), Q(complexity.light_count * 2, 100))
        volumetrics_factor == IF sc.use_volumetric_lights THEN Q(13, 10) ELSE QInt(1)
        ssr_factor         == IF sc.use_ssr THEN Q(115, 100) ELSE QInt(1)
        ao_factor          == IF sc.use_gtao THEN Q(105, 100) ELSE QInt(1)
        calibration        == QMul(cal, Q(1, 10))
        estimated_time     ==
            QMul(QMul(QMul(QMul(QMul(QMul(QMul(
                QDiv(samples, QInt(64)),
                resolution_factor), object_factor), light_factor),
                volumetrics_factor), ssr_factor), ao_factor), calibration)
    IN  QMax(Q(1, 2), estimated_time)

estimate_single_frame_time(sc, cal) ==
    LET complexity == get_scene_complexity(sc)
    IN  IF sc.engine = "CYCLES"
        THEN estimate_cycles_render_time(sc, complexity, cal)
        ELSE IF sc.engine = "BLENDER_EEVEE_NEXT" \/ sc.engine = "BLENDER_EEVEE"
        THEN estimate_eevee_render_time(sc, complexity, cal)
        ELSE QInt(5)

\* Faulty variant: the last frame of the range is not counted.
estimate_animation_time_without_last_frame(sc, cal) ==
    LET frame_time   == estimate_single_frame_time(sc, cal)
        total_frames == sc.frame_end - sc.frame_start
    IN  QMul(frame_time, QInt(total_frames))

\* Faulty variant: the range is measured from its end to its start.
estimate_animation_time_range_reversed(sc, cal) ==
    LET frame_time   == estimate_single_frame_time(sc, cal)
        total_frames == sc.frame_start - sc.frame_end + 1
    IN  QMul(frame_time, QInt(total_frames))

estimate_animation_time(sc, cal) ==
    LET frame_time   == estimate_single_frame_time(sc, cal)
        total_frames == sc.frame_end - sc.frame_start + 1
    IN  QMul(frame_time, QInt(total_frames))

(***************************************************************************)
(* State.                                                                  *)
(***************************************************************************)
VARIABLES
    \* module-level lifecycle state
    _frame_start, _total_start, _first_rendered_frame, _last_frame_time,
    _last_eta_human, _last_eta_HHMMSS, _progress, _is_rendering,
    _total_time, _avg_time, _single_frame_render, _single_frame_start,
    _detected_animation, _pre_render_estimate,
    \* RTE_AddonPreferences
    calibration_factor, auto_calibrate, persistent_progress,
    \* the exception the last handler call raised ("" when it returned)
    exc,
    \* the host: its scene, its clock, its render job
    scene, now, host, host_anim,
    \* history: the last event and what it returned, the pre-render estimate
    \* and the calibration factor it found, whether a render is open (armed by
    \* a command or announced by render_init, and not yet ended by a terminal
    \* event), whether the summary now held was carried over by
    \* reset_render_state (it ran with persistent progress on, and no Complete
    \* has been delivered since), counters for the bounds
    event, ret, prev_pre, prev_cal, in_render, carried, ticks, renders,
    \* the document at time_activities.json and the table loaded from it at
    \* import
    activities_file, TIME_ACTIVITIES,
    \* what draw_main_panel last showed: the two estimates and their activity
    \* messages; the last remaining time it looked up and the message it got
    single_time, anim_time, single_activity, anim_activity, seconds, activity

lifecycle ==
    <<_frame_start, _total_start, _first_rendered_frame, _last_frame_time,
      _last_eta_human, _last_eta_HHMMSS, _progress, _is_rendering,
      _total_time, _avg_time, _single_frame_render, _single_frame_start,
      _detected_animation, _pre_render_estimate>>

prefs == <<calibration_factor, auto_calibrate, persistent_progress>>

hostv == <<scene, now, host, host_anim>>

history ==
    <<event, ret, prev_pre, prev_cal, in_render, carried, ticks, renders>>

advisor == <<activities_file, TIME_ACTIVITIES>>

panel ==
    <<single_time, anim_time, single_activity, anim_activity, seconds, activity>>

vars == <<lifecycle, prefs, exc, hostv, history, advisor, panel>>

\* Python truthiness of a timestamp: None and 0.0 are false
Truthy(t) == t # None /\ t[1] # 0

\* d[k] = v on a dict
DictSet(d, k, v) == [x \in DOMAIN d \cup {k} |-> IF x = k THEN v ELSE d[x]]

\* d.get(k, default)
DictGet(d, k, default) == IF k \in DOMAIN d THEN d[k] ELSE default

(***************************************************************************)
(* reset_render_state and the five handlers.  Each is the whole function:  *)
(* it fixes the next value of the lifecycle state, of the calibration      *)
(* factor and of exc.                                                      *)
(***************************************************************************)
reset_render_state(pp, is_single_frame, sc, t) ==
    /\ _frame_start' = << >>
    /\ _total_start' = None
    /\ _last_frame_time' = QInt(0)
    /\ _first_rendered_frame' = None
    /\ _progress' = QInt(0)
    /\ _detected_animation' = FALSE
    /\ IF pp
       THEN UNCHANGED <<_total_time, _avg_time>>
       ELSE _total_time' = None /\ _avg_time' = None
    /\ _last_eta_human' = "Calculating ETA"
    /\ _last_eta_HHMMSS' = "Calculating ETA"
    /\ _is_rendering' = TRUE
    /\ _single_frame_render' = is_single_frame
    /\ IF is_single_frame
       THEN /\ _single_frame_start' = t
            /\ _pre_render_estimate' = None
       ELSE /\ _single_frame_start' = None
            /\ _pre_render_estimate' =
                   IF sc # None /\ auto_calibrate
                   THEN estimate_animation_time(sc[1], calibration_factor)
                   ELSE None
    /\ UNCHANGED calibration_factor
    /\ exc' = ""

render_init_handler(sc, t) ==
    /\ IF ~_is_rendering
       THEN /\ _is_rendering' = TRUE
            /\ _total_start' = t
            /\ _first_rendered_frame' = None
            /\ _last_frame_time' = QInt(0)
            /\ _progress' = QInt(0)
            /\ _total_time' = None
            /\ _avg_time' = None
            /\ _last_eta_human' = "Calculating ETA"
            /\ _last_eta_HHMMSS' = "Calculating ETA"
            /\ _detected_animation' = FALSE
            /\ _pre_render_estimate' = None
            /\ _single_frame_render' = TRUE
            /\ _single_frame_start' = t
       ELSE /\ _total_start' = IF _total_start = None THEN t ELSE _total_start
            /\ UNCHANGED <<_is_rendering, _first_rendered_frame, _last_frame_time,
                           _progress, _total_time, _avg_time, _last_eta_human,
                           _last_eta_HHMMSS, _detected_animation,
                           _pre_render_estimate, _single_frame_render,
                           _single_frame_start>>
    /\ UNCHANGED <<_frame_start, calibration_factor>>
    /\ exc' = ""

\* Faulty variant: every Pre-frame overwrites the first rendered frame.
render_pre_handler_overwrites_first(sc, t) ==
    LET cur == sc.frame_current IN
    /\ _frame_start' = DictSet(_frame_start, cur, t)
    /\ IF _first_rendered_frame = None
       THEN /\ _first_rendered_frame' = <<cur>>
            /\ _total_start' = t
            /\ UNCHANGED <<_detected_animation, _single_frame_render,
                           _pre_render_estimate>>
       ELSE /\ _first_rendered_frame' = <<cur>>
            /\ _total_start' = IF _total_start = None THEN t ELSE _total_start
            /\ IF ~_detected_animation
               THEN /\ _detected_animation' = TRUE
                    /\ _single_frame_render' = FALSE
                    /\ _pre_render_estimate' =
                           IF _pre_render_estimate = None /\ auto_calibrate
                           THEN estimate_animation_time(sc, calibration_factor)
                           ELSE _pre_render_estimate
               ELSE UNCHANGED <<_detected_animation, _single_frame_render,
                                _pre_render_estimate>>
    /\ UNCHANGED <<_last_frame_time, _last_eta_human, _last_eta_HHMMSS, _progress,
                   _is_rendering, _total_time, _avg_time, _single_frame_start,
                   calibration_factor>>
    /\ exc' = ""

\* Faulty variant: the first Pre-frame already confirms an animation.
render_pre_handler_detects_at_first(sc, t) ==
    LET cur == sc.frame_current IN
    /\ _frame_start' = DictSet(_frame_start, cur, t)
    /\ IF _first_rendered_frame = None
       THEN /\ _first_rendered_frame' = <<cur>>
            /\ _total_start' = t
            /\ _detected_animation' = TRUE
            /\ UNCHANGED <<_single_frame_render, _pre_render_estimate>>
       ELSE /\ UNCHANGED _first_rendered_frame
            /\ _total_start' = IF _total_start = None THEN t ELSE _total_start
            /\ IF ~_detected_animation
               THEN /\ _detected_animation' = TRUE
                    /\ _single_frame_render' = FALSE
                    /\ _pre_render_estimate' =
                           IF _pre_render_estimate = None /\ auto_calibrate
                           THEN estimate_animation_time(sc, calibration_factor)
                           ELSE _pre_render_estimate
               ELSE UNCHANGED <<_detected_animation, _single_frame_render,
                                _pre_render_estimate>>
    /\ UNCHANGED <<_last_frame_time, _last_eta_human, _last_eta_HHMMSS, _progress,
                   _is_rendering, _total_time, _avg_time, _single_frame_start,
                   calibration_factor>>
    /\ exc' = ""

\* Faulty variant: the second frame does not clear the single-frame flag.
render_pre_handler_keeps_single_flag(sc, t) ==
    LET cur == sc.frame_current IN
    /\ _frame_start' = DictSet(_frame_start, cur, t)
    /\ IF _first_rendered_frame = None
       THEN /\ _first_rendered_frame' = <<cur>>
            /\ _total_start' = t
            /\ UNCHANGED <<_detected_animation, _single_frame_render,
                           _pre_render_estimate>>
       ELSE /\ UNCHANGED _first_rendered_frame
            /\ _total_start' = IF _total_start = None THEN t ELSE _total_start
            /\ IF ~_detected_animation
               THEN /\ _detected_animation' = TRUE
                    /\ UNCHANGED _single_frame_render
                    /\ _pre_render_estimate' =
                           IF _pre_render_estimate = None /\ auto_calibrate
                           THEN estimate_animation_time(sc, calibration_factor)
                           ELSE _pre_render_estimate
               ELSE UNCHANGED <<_detected_animation, _single_frame_render,
                                _pre_render_estimate>>
    /\ UNCHANGED <<_last_frame_time, _last_eta_human, _last_eta_HHMMSS, _progress,
                   _is_rendering, _total_time, _avg_time, _single_frame_start,
                   calibration_factor>>
    /\ exc' = ""

render_pre_handler(sc, t) ==
    LET cur == sc.frame_current IN
    /\ _frame_start' = DictSet(_frame_start, cur, t)
    /\ IF _first_rendered_frame = None
       THEN /\ _first_rendered_frame' = <<cur>>
            /\ _total_start' = t
            /\ UNCHANGED <<_detected_animation, _single_frame_render,
                           _pre_render_estimate>>
       ELSE /\ UNCHANGED _first_rendered_frame
            /\ _total_start' = IF _total_start = None THEN t ELSE _total_start
            /\ IF ~_detected_animation
               THEN /\ _detected_animation' = TRUE
                    /\ _single_frame_render' = FALSE
                    /\ _pre_render_estimate' =
                           IF _pre_render_estimate = None /\ auto_calibrate
                           THEN estimate_animation_time(sc, calibration_factor)
                           ELSE _pre_render_estimate
               ELSE UNCHANGED <<_detected_animation, _single_frame_render,
                                _pre_render_estimate>>
    /\ UNCHANGED <<_last_frame_time, _last_eta_human, _last_eta_HHMMSS, _progress,
                   _is_rendering, _total_time, _avg_time, _single_frame_start,
                   calibration_factor>>
    /\ exc' = ""

\* Faulty variant: the ETA extrapolates over all frames of the run.
render_post_handler_counts_all_frames(sc, t) ==
    LET cur == sc.frame_current IN
    IF _first_rendered_frame = None
    THEN UNCHANGED <<lifecycle, calibration_factor>> /\ exc' = ""
    ELSE
      LET frame_index  == cur - _first_rendered_frame[1] + 1
          total_frames == sc.frame_end - _first_rendered_frame[1] + 1
          dur          == QSub(t, DictGet(_frame_start, cur, t))
          remaining    == sc.frame_end - cur
          predicted    == QMul(dur, QInt(total_frames))
      IN  /\ _last_frame_time' = dur
          /\ IF remaining > 0
             THEN /\ _last_eta_human' = format_time_human(predicted)
                  /\ _last_eta_HHMMSS' = format_time_HHMMSS(predicted)
             ELSE /\ _last_eta_human' = "Finishing..."
                  /\ _last_eta_HHMMSS' = "Finishing..."
          \* frame_index / total_frames raises ZeroDivisionError on 0
          /\ IF total_frames # 0
             THEN _progress' = Q(frame_index, total_frames) /\ exc' = ""
             ELSE UNCHANGED _progress /\ exc' = "ZeroDivisionError"
          /\ UNCHANGED <<_frame_start, _total_start, _first_rendered_frame,
                         _is_rendering, _total_time, _avg_time,
                         _single_frame_render, _single_frame_start,
                         _detected_animation, _pre_render_estimate,
                         calibration_factor>>

\* Faulty variant: with no first rendered frame recorded, the run is taken
\* to start at the frame of the event.
render_post_handler_counts_from_current(sc, t) ==
    LET cur   == sc.frame_current
        first == IF _first_rendered_frame = None THEN cur
                 ELSE _first_rendered_frame[1]
        frame_index  == cur - first + 1
        total_frames == sc.frame_end - first + 1
        dur          == QSub(t, DictGet(_frame_start, cur, t))
        remaining    == sc.frame_end - cur
        predicted    == QMul(dur, QInt(remaining))
    IN  /\ _last_frame_time' = dur
        /\ IF remaining > 0
           THEN /\ _last_eta_human' = format_time_human(predicted)
                /\ _last_eta_HHMMSS' = format_time_HHMMSS(predicted)
           ELSE /\ _last_eta_human' = "Finishing..."
                /\ _last_eta_HHMMSS' = "Finishing..."
        /\ IF total_frames # 0
           THEN _progress' = Q(frame_index, total_frames) /\ exc' = ""
           ELSE UNCHANGED _progress /\ exc' = "ZeroDivisionError"
        /\ UNCHANGED <<_frame_start, _total_start, _first_rendered_frame,
                       _is_rendering, _total_time, _avg_time,
                       _single_frame_render, _single_frame_start,
                       _detected_animation, _pre_render_estimate,
                       calibration_factor>>

render_post_handler(sc, t) ==
    LET cur == sc.frame_current IN
    IF _first_rendered_frame = None
    THEN UNCHANGED <<lifecycle, calibration_factor>> /\ exc' = ""
    ELSE
      LET frame_index  == cur - _first_rendered_frame[1] + 1
          total_frames == sc.frame_end - _first_rendered_frame[1] + 1
          dur          == QSub(t, DictGet(_frame_start, cur, t))
          remaining    == sc.frame_end - cur
          predicted    == QMul(dur, QInt(remaining))
      IN  /\ _last_frame_time' = dur
          /\ IF remaining > 0
             THEN /\ _last_eta_human' = format_time_human(predicted)
                  /\ _last_eta_HHMMSS' = format_time_HHMMSS(predicted)
             ELSE /\ _last_eta_human' = "Finishing..."
                  /\ _last_eta_HHMMSS' = "Finishing..."
          \* frame_index / total_frames raises ZeroDivisionError on 0
          /\ IF total_frames # 0
             THEN _progress' = Q(frame_index, total_frames) /\ exc' = ""
             ELSE UNCHANGED _progress /\ exc' = "ZeroDivisionError"
          /\ UNCHANGED <<_frame_start, _total_start, _first_rendered_frame,
                         _is_rendering, _total_time, _avg_time,
                         _single_frame_render, _single_frame_start,
                         _detected_animation, _pre_render_estimate,
                         calibration_factor>>

\* Faulty variant: the averaged factor is not clamped.
auto_calibrate_factor_unclamped(cal, estimate, total) ==
    LET correction      == QDiv(total, estimate)
        new_cal_factor  == QMul(cal, correction)
    IN  QDiv(QAdd(cal, new_cal_factor), QInt(2))

\* Faulty variant: the raw corrected factor is applied, not the average.
auto_calibrate_factor_undamped(cal, estimate, total) ==
    LET correction      == QDiv(total, estimate)
        new_cal_factor  == QMul(cal, correction)
    IN  QMax(Q(1, 10), QMin(QInt(50), new_cal_factor))

\* Faulty variant: the correction is the estimate over the actual time.
auto_calibrate_factor_inverted(cal, estimate, total) ==
    LET correction      == QDiv(estimate, total)
        new_cal_factor  == QMul(cal, correction)
        averaged_factor == QDiv(QAdd(cal, new_cal_factor), QInt(2))
    IN  QMax(Q(1, 10), QMin(QInt(50), averaged_factor))

\* lines 504-513: the damped, clamped update of the calibration factor
auto_calibrate_factor(cal, estimate, total) ==
    LET correction      == QDiv(total, estimate)
        new_cal_factor  == QMul(cal, correction)
        averaged_factor == QDiv(QAdd(cal, new_cal_factor), QInt(2))
    IN  QMax(Q(1, 10), QMin(QInt(50), averaged_factor))

\* Faulty variant: the auto-calibrate preference is not consulted.
calibration_eligible_ignoring_preference(total) ==
    /\ _pre_render_estimate # None
    /\ QLt(QInt(0), _pre_render_estimate)
    /\ QLt(QInt(0), total)

\* line 501: when the animation branch of render_complete calibrates
calibration_eligible(total) ==
    /\ auto_calibrate
    /\ _pre_render_estimate # None
    /\ QLt(QInt(0), _pre_render_estimate)
    /\ QLt(QInt(0), total)

\* Faulty variant: the animation branch does not consume the estimate.
render_complete_handler_keeps_estimate(sc, t) ==
    /\ IF _single_frame_render
       THEN LET total == IF Truthy(_single_frame_start)
                         THEN QSub(t, _single_frame_start) ELSE QInt(0)
            IN  /\ _total_time' = total
                /\ _avg_time' = total
                /\ _last_eta_human' = "RENDER COMPLETE"
                /\ _last_eta_HHMMSS' =
                       "RENDER COMPLETE | Time: " \o format_time_HHMMSS(total)
                /\ _single_frame_render' = FALSE
                /\ _single_frame_start' = None
                /\ _detected_animation' = FALSE
                /\ UNCHANGED <<_pre_render_estimate, calibration_factor>>
       ELSE LET total_frames == IF _first_rendered_frame # None
                                THEN sc.frame_end - _first_rendered_frame[1] + 1
                                ELSE 0
                total == IF Truthy(_total_start)
                         THEN QSub(t, _total_start) ELSE QInt(0)
                avg   == IF total_frames # 0
                         THEN QDiv(total, QInt(total_frames)) ELSE QInt(0)
            IN  /\ _total_time' = total
                /\ _avg_time' = avg
                /\ _last_eta_human' = "RENDER COMPLETE"
                /\ _last_eta_HHMMSS' =
                       "RENDER COMPLETE | Total: " \o format_time_HHMMSS(total)
                           \o ", Avg: " \o format_time_HHMMSS(avg)
                /\ calibration_factor' =
                       IF calibration_eligible(total)
                       THEN auto_calibrate_factor(calibration_factor,
                                                  _pre_render_estimate, total)
                       ELSE calibration_factor
                /\ _detected_animation' = FALSE
                /\ UNCHANGED <<_pre_render_estimate, _single_frame_render,
                               _single_frame_start>>
    /\ _is_rendering' = FALSE
    /\ UNCHANGED <<_frame_start, _total_start, _first_rendered_frame,
                   _last_frame_time, _progress>>
    /\ exc' = ""

render_complete_handler(sc, t) ==
    /\ IF _single_frame_render
       THEN LET total == IF Truthy(_single_frame_start)
                         THEN QSub(t, _single_frame_start) ELSE QInt(0)
            IN  /\ _total_time' = total
                /\ _avg_time' = total
                /\ _last_eta_human' = "RENDER COMPLETE"
                /\ _last_eta_HHMMSS' =
                       "RENDER COMPLETE | Time: " \o format_time_HHMMSS(total)
                /\ _single_frame_render' = FALSE
                /\ _single_frame_start' = None
                /\ _detected_animation' = FALSE
                /\ UNCHANGED <<_pre_render_estimate, calibration_factor>>
       ELSE LET total_frames == IF _first_rendered_frame # None
                                THEN sc.frame_end - _first_rendered_frame[1] + 1
                                ELSE 0
                total == IF Truthy(_total_start)
                         THEN QSub(t, _total_start) ELSE QInt(0)
                avg   == IF total_frames # 0
                         THEN QDiv(total, QInt(total_frames)) ELSE QInt(0)
            IN  /\ _total_time' = total
                /\ _avg_time' = avg
                /\ _last_eta_human' = "RENDER COMPLETE"
                /\ _last_eta_HHMMSS' =
                       "RENDER COMPLETE | Total: " \o format_time_HHMMSS(total)
                           \o ", Avg: " \o format_time_HHMMSS(avg)
                /\ calibration_factor' =
                       IF calibration_eligible(total)
                       THEN auto_calibrate_factor(calibration_factor,
                                                  _pre_render_estimate, total)
                       ELSE calibration_factor
                /\ _detected_animation' = FALSE
                /\ _pre_render_estimate' = None
                /\ UNCHANGED <<_single_frame_render, _single_frame_start>>
    /\ _is_rendering' = FALSE
    /\ UNCHANGED <<_frame_start, _total_start, _first_rendered_frame,
                   _last_frame_time, _progress>>
    /\ exc' = ""

\* Faulty variant: the pre-render estimate survives a cancel.
render_cancel_handler_keeps_estimate(sc, t) ==
    /\ _last_eta_human' = "RENDER STOPPED"
    /\ _last_eta_HHMMSS' = "RENDER STOPPED"
    /\ _is_rendering' = FALSE
    /\ _single_frame_render' = FALSE
    /\ _single_frame_start' = None
    /\ _detected_animation' = FALSE
    /\ UNCHANGED <<_frame_start, _total_start, _first_rendered_frame,
                   _last_frame_time, _progress, _total_time, _avg_time,
                   _pre_render_estimate, calibration_factor>>
    /\ exc' = ""

\* Faulty variant: a cancel leaves the is-rendering flag set.
render_cancel_handler_stays_rendering(sc, t) ==
    /\ _last_eta_human' = "RENDER STOPPED"
    /\ _last_eta_HHMMSS' = "RENDER STOPPED"
    /\ UNCHANGED _is_rendering
    /\ _single_frame_render' = FALSE
    /\ _single_frame_start' = None
    /\ _detected_animation' = FALSE
    /\ _pre_render_estimate' = None
    /\ UNCHANGED <<_frame_start, _total_start, _first_rendered_frame,
                   _last_frame_time, _progress, _total_time, _avg_time,
                   calibration_factor>>
    /\ exc' = ""

\* Faulty variant: a cancel leaves the mode flags as they were.
render_cancel_handler_keeps_mode(sc, t) ==
    /\ _last_eta_human' = "RENDER STOPPED"
    /\ _last_eta_HHMMSS' = "RENDER STOPPED"
    /\ _is_rendering' = FALSE
    /\ _single_frame_start' = None
    /\ _pre_render_estimate' = None
    /\ UNCHANGED <<_frame_start, _total_start, _first_rendered_frame,
                   _last_frame_time, _progress, _total_time, _avg_time,
                   _single_frame_render, _detected_animation,
                   calibration_factor>>
    /\ exc' = ""

render_cancel_handler(sc, t) ==
    /\ _last_eta_human' = "RENDER STOPPED"
    /\ _last_eta_HHMMSS' = "RENDER STOPPED"
    /\ _is_rendering' = FALSE
    /\ _single_frame_render' = FALSE
    /\ _single_frame_start' = None
    /\ _detected_animation' = FALSE
    /\ _pre_render_estimate' = None
    /\ UNCHANGED <<_frame_start, _total_start, _first_rendered_frame,
                   _last_frame_time, _progress, _total_time, _avg_time,
                   calibration_factor>>
    /\ exc' = ""

(***************************************************************************)
(* The two operators.  bpy.ops.render.render asks the host for a render    *)
(* job; the host has at most one.                                          *)
(***************************************************************************)
HostRender(animation) ==
    IF host = "idle"
    THEN host' = "requested" /\ host_anim' = animation
    ELSE UNCHANGED <<host, host_anim>>

RTE_OT_RenderAnimationWithETA_execute ==
    IF ~_is_rendering
    THEN /\ reset_render_state(persistent_progress, FALSE, <<scene>>, now)
         /\ HostRender(TRUE)
         /\ ret' = "FINISHED"
    ELSE /\ UNCHANGED <<lifecycle, calibration_factor, host, host_anim>>
         /\ exc' = ""
         /\ ret' = "CANCELLED"

\* Faulty variant: the command does not look at the is-rendering flag.
RTE_OT_RenderSingleWithETA_execute_unguarded ==
    /\ reset_render_state(persistent_progress, TRUE, None, now)
    /\ HostRender(FALSE)
    /\ ret' = "FINISHED"

RTE_OT_RenderSingleWithETA_execute ==
    IF ~_is_rendering
    THEN /\ reset_render_state(persistent_progress, TRUE, None, now)
         /\ HostRender(FALSE)
         /\ ret' = "FINISHED"
    ELSE /\ UNCHANGED <<lifecycle, calibration_factor, host, host_anim>>
         /\ exc' = ""
         /\ ret' = "CANCELLED"

(***************************************************************************)
(* Initial state: the module-level assignments, the preferences the user   *)
(* has set, a scene of the host.                                           *)
(***************************************************************************)
Frames == 1..MaxFrame

\* the frames a still is rendered at: inside the range, or past its end
StillFrames == {1, MaxFrame + 1}

Scene(engine, fs, fe, fc) ==
    [engine |-> engine,
     samples |-> 100, use_adaptive_sampling |-> FALSE,
     adaptive_threshold |-> Q(1, 100), use_fast_gi |-> FALSE,
     use_denoising |-> FALSE,
     taa_render_samples |-> 64, use_volumetric_lights |-> FALSE,
     use_ssr |-> FALSE, use_gtao |-> FALSE,
     resolution_x |-> 1920, resolution_y |-> 1080,
     resolution_percentage |-> 100,
     mesh_count |-> 0, light_count |-> 0, volume_count |-> 0,
     total_verts |-> 0,
     frame_start |-> fs, frame_end |-> fe, frame_current |-> fc]

\* the scenes of the lifecycle model: the default Cycles scene, its range
\* starting at frame 1 (the host keeps frame_start <= frame_end)
Scenes == {Scene("CYCLES", 1, fe, 1) : fe \in Frames}

\* the default of the preference and its hard minimum
InitialFactors == {QInt(2), Q(1, 10)}

\* what a frame can take
Dts == {Q(1, 2), Q(90061, 2)}

Init ==
    /\ _frame_start = << >>
    /\ _total_start = None
    /\ _first_rendered_frame = None
    /\ _last_frame_time = QInt(0)
    /\ _last_eta_human = "AWAITING RENDER"
    /\ _last_eta_HHMMSS = "AWAITING RENDER"
    /\ _progress = QInt(0)
    /\ _is_rendering = FALSE
    /\ _total_time = None
    /\ _avg_time = None
    /\ _single_frame_render = FALSE
    /\ _single_frame_start = None
    /\ _detected_animation = FALSE
    /\ _pre_render_estimate = None
    /\ calibration_factor \in InitialFactors
    /\ auto_calibrate \in BOOLEAN
    /\ persistent_progress \in BOOLEAN
    /\ exc = ""
    /\ scene \in Scenes
    /\ now = QInt(1)
    /\ host = "idle"
    /\ host_anim = FALSE
    /\ event = "load"
    /\ ret = ""
    /\ prev_pre = None
    /\ prev_cal = calibration_factor
    /\ in_render = FALSE
    /\ carried = FALSE
    /\ ticks = 0
    /\ renders = 0
    /\ activities_file = JDoc("absent", "missing", << >>)
    /\ TIME_ACTIVITIES = _load_time_activities(activities_file).table
    /\ single_time = None
    /\ anim_time = None
    /\ single_activity = ""
    /\ anim_activity = ""
    /\ seconds = None
    /\ activity = ""

(***************************************************************************)
(* Events.  Hist records what the event found; it comes after the handler, *)
(* whose result it reads.                                                  *)
(***************************************************************************)
Hist(e) ==
    /\ event' = e
    /\ prev_pre' = _pre_render_estimate
    /\ prev_cal' = calibration_factor
    /\ carried' = /\ _total_time' # None
                  /\ IF e \in {"cmd_animation", "cmd_single"}
                     THEN carried \/ persistent_progress
                     ELSE IF e \in {"complete", "complete_again"}
                     THEN FALSE
                     ELSE carried

CmdAnimation ==
    /\ _is_rendering \/ renders < MaxRenders
    /\ RTE_OT_RenderAnimationWithETA_execute
    /\ Hist(IF _is_rendering THEN "busy" ELSE "cmd_animation")
    /\ UNCHANGED <<advisor, panel>>
    /\ in_render' = IF _is_rendering THEN in_render ELSE TRUE
    /\ renders' = IF _is_rendering THEN renders ELSE renders + 1
    /\ UNCHANGED <<auto_calibrate, persistent_progress, scene, now, ticks>>

CmdSingle ==
    /\ _is_rendering \/ renders < MaxRenders
    /\ RTE_OT_RenderSingleWithETA_execute
    /\ Hist(IF _is_rendering THEN "busy" ELSE "cmd_single")
    /\ UNCHANGED <<advisor, panel>>
    /\ in_render' = IF _is_rendering THEN in_render ELSE TRUE
    /\ renders' = IF _is_rendering THEN renders ELSE renders + 1
    /\ UNCHANGED <<auto_calibrate, persistent_progress, scene, now, ticks>>

\* the host could not start the job it was asked for: no event is fired
HostRefuse ==
    /\ host = "requested"
    /\ host' = "idle"
    /\ UNCHANGED <<lifecycle, prefs, exc, scene, now, host_anim, ticks, renders>>
    /\ Hist("refused")
    /\ UNCHANGED <<advisor, panel>>
    /\ ret' = ""
    /\ UNCHANGED in_render

\* render_init: a requested job starts, or the user starts one natively
HostInit ==
    /\ \/ /\ host = "requested"
          /\ UNCHANGED <<host_anim, renders>>
       \/ /\ host = "idle"
          /\ renders < MaxRenders
          /\ renders' = renders + 1
          /\ host_anim' \in BOOLEAN
    /\ host' = "init"
    /\ render_init_handler(scene, now)
    /\ Hist("init")
    /\ UNCHANGED <<advisor, panel>>
    /\ in_render' = TRUE
    /\ ret' = ""
    /\ UNCHANGED <<auto_calibrate, persistent_progress, scene, now, ticks>>

\* render_pre: an animation walks frame_start..frame_end, a still renders
\* the frame the scene is at
HostPre ==
    /\ \/ /\ host_anim
          /\ host \in {"init", "gap"}
          /\ LET f == IF host = "init" THEN scene.frame_start
                      ELSE scene.frame_current + 1
             IN  /\ f <= scene.frame_end
                 /\ scene' = [scene EXCEPT !.frame_current = f]
       \/ /\ ~host_anim
          /\ host = "init"
          /\ \E f \in StillFrames : scene' = [scene EXCEPT !.frame_current = f]
    /\ host' = "frame"
    /\ render_pre_handler(scene', now)
    /\ Hist("pre")
    /\ UNCHANGED <<advisor, panel>>
    /\ UNCHANGED in_render
    /\ ret' = ""
    /\ UNCHANGED <<auto_calibrate, persistent_progress, now, host_anim, ticks,
                   renders>>

HostPost ==
    /\ host = "frame"
    /\ host' = "gap"
    \* the frame took no measurable time, or some
    /\ \/ UNCHANGED <<now, ticks>>
       \/ /\ ticks < MaxTicks
          /\ ticks' = ticks + 1
          /\ \E dt \in Dts : now' = QAdd(now, dt)
    /\ render_post_handler(scene, now')
    /\ Hist("post")
    /\ UNCHANGED <<advisor, panel>>
    /\ UNCHANGED in_render
    /\ ret' = ""
    /\ UNCHANGED <<auto_calibrate, persistent_progress, scene, host_anim,
                   renders>>

HostComplete ==
    /\ host = "gap"
    /\ host_anim => scene.frame_current = scene.frame_end
    /\ host' = "idle"
    /\ render_complete_handler(scene, now)
    /\ Hist("complete")
    /\ UNCHANGED <<advisor, panel>>
    /\ in_render' = FALSE
    /\ ret' = ""
    /\ UNCHANGED <<auto_calibrate, persistent_progress, scene, now, host_anim,
                   ticks, renders>>

HostCancel ==
    /\ host \in {"init", "frame", "gap"}
    /\ host' = "idle"
    /\ render_cancel_handler(scene, now)
    /\ Hist("cancel")
    /\ UNCHANGED <<advisor, panel>>
    /\ in_render' = FALSE
    /\ ret' = ""
    /\ UNCHANGED <<auto_calibrate, persistent_progress, scene, now, host_anim,
                   ticks, renders>>

\* the user edits the auto-calibrate preference
SetAutoCalibrate ==
    /\ auto_calibrate' = ~auto_calibrate
    /\ UNCHANGED <<lifecycle, calibration_factor, persistent_progress, exc,
                   hostv, history, advisor, panel>>

Next ==
    \/ CmdAnimation
    \/ CmdSingle
    \/ HostRefuse
    \/ HostInit
    \/ HostPre
    \/ HostPost
    \/ HostComplete
    \/ HostCancel
    \/ SetAutoCalibrate

Spec == Init /\ [][Next]_vars

(***************************************************************************)
(* Outside the host's ordering guarantee: a terminal event delivered again *)
(* after the render's terminal event, before any new render starts.        *)
(***************************************************************************)
Terminal == {"complete", "cancel", "complete_again", "cancel_again"}

CompleteAgain ==
    /\ host = "idle"
    /\ event \in Terminal
    /\ render_complete_handler(scene, now)
    /\ Hist("complete_again")
    /\ UNCHANGED <<advisor, panel>>
    /\ ret' = ""
    /\ UNCHANGED <<auto_calibrate, persistent_progress, hostv, in_render, ticks,
                   renders>>

CancelAgain ==
    /\ host = "idle"
    /\ event \in Terminal
    /\ render_cancel_handler(scene, now)
    /\ Hist("cancel_again")
    /\ UNCHANGED <<advisor, panel>>
    /\ ret' = ""
    /\ UNCHANGED <<auto_calibrate, persistent_progress, hostv, in_render, ticks,
                   renders>>

NextStray ==
    \/ Next
    \/ CompleteAgain
    \/ CancelAgain

SpecStray == Init /\ [][NextStray]_vars

(***************************************************************************)
(* Outside the host's ordering guarantee: render_post delivered for a      *)
(* frame the host fired no render_pre for in this render: before the first *)
(* frame of a render, or for the frame after the one a still rendered.     *)
(***************************************************************************)
PostUnmatched ==
    /\ \/ /\ host = "init"
          /\ UNCHANGED scene
       \/ /\ host = "gap"
          /\ ~host_anim
          /\ scene.frame_current <= MaxFrame
          /\ scene' = [scene EXCEPT !.frame_current = @ + 1]
    /\ render_post_handler(scene', now)
    /\ Hist("post_unmatched")
    /\ ret' = ""
    /\ UNCHANGED <<auto_calibrate, persistent_progress, now, host, host_anim,
                   in_render, ticks, renders>>
    /\ UNCHANGED <<advisor, panel>>

NextUnmatched ==
    \/ Next
    \/ PostUnmatched

SpecUnmatched == Init /\ [][NextUnmatched]_vars

(***************************************************************************)
(* A session in which a render has already completed: the user rendered    *)
(* frame 1 as a still from the host's menu at time 1, the frame took half  *)
(* a second, and the host delivered Complete.  The counters count what     *)
(* follows.                                                                *)
(***************************************************************************)
CompletedStill ==
    /\ _frame_start = <<QInt(1)>>
    /\ _total_start = QInt(1)
    /\ _first_rendered_frame = <<1>>
    /\ _last_frame_time = Q(1, 2)
    /\ _last_eta_human = "RENDER COMPLETE"
    /\ _last_eta_HHMMSS = "RENDER COMPLETE | Time: 00:00:00"
    /\ _progress = Q(1, scene.frame_end)
    /\ _is_rendering = FALSE
    /\ _total_time = Q(1, 2)
    /\ _avg_time = Q(1, 2)
    /\ _single_frame_render = FALSE
    /\ _single_frame_start = None
    /\ _detected_animation = FALSE
    /\ _pre_render_estimate = None
    /\ scene.frame_current = 1
    /\ now = Q(3, 2)
    /\ host = "idle"
    /\ host_anim = FALSE
    /\ event = "complete"
    /\ exc = ""

InitCarry ==
    /\ scene \in Scenes
    /\ CompletedStill
    /\ calibration_factor \in InitialFactors
    /\ auto_calibrate \in BOOLEAN
    /\ persistent_progress \in BOOLEAN
    /\ ret = ""
    /\ prev_pre = None
    /\ prev_cal = calibration_factor
    /\ in_render = FALSE
    /\ carried = FALSE
    /\ ticks = 0
    /\ renders = 0
    /\ activities_file = JDoc("absent", "missing", << >>)
    /\ TIME_ACTIVITIES = _load_time_activities(activities_file).table
    /\ single_time = None
    /\ anim_time = None
    /\ single_activity = ""
    /\ anim_activity = ""
    /\ seconds = None
    /\ activity = ""

SpecCarry == InitCarry /\ [][Next]_vars

(***************************************************************************)
(* The calibration step on its own: Render Animation with ETA has rendered *)
(* the one frame of its range and the host is about to deliver Complete.   *)
(* The estimate was captured at Reset/Start under some calibration factor; *)
(* the user may have moved the factor since (it is a preference, 0.1 to    *)
(* 50); the render took some time.                                         *)
(***************************************************************************)
CalibrationFactors == {Q(1, 10), Q(3, 2), QInt(2), QInt(50)}

CaptureFactors == {Q(1, 10), QInt(2), QInt(50)}

Actuals == {Q(1, 2), QInt(1), QInt(2), QInt(50), Q(90061, 2)}

InitCalibrate ==
    /\ scene = Scene("CYCLES", 1, 1, 1)
    /\ calibration_factor \in CalibrationFactors
    /\ auto_calibrate \in BOOLEAN
    /\ persistent_progress = FALSE
    /\ \E cal \in CaptureFactors :
           _pre_render_estimate = estimate_animation_time(scene, cal)
    /\ \E total \in Actuals :
           /\ now = QAdd(QInt(1), total)
           /\ _last_frame_time = total
    /\ _frame_start = <<QInt(1)>>
    /\ _total_start = QInt(1)
    /\ _first_rendered_frame = <<1>>
    /\ _last_eta_human = "Finishing..."
    /\ _last_eta_HHMMSS = "Finishing..."
    /\ _progress = QInt(1)
    /\ _is_rendering = TRUE
    /\ _total_time = None
    /\ _avg_time = None
    /\ _single_frame_render = FALSE
    /\ _single_frame_start = None
    /\ _detected_animation = FALSE
    /\ exc = ""
    /\ host = "gap"
    /\ host_anim = TRUE
    /\ event = "post"
    /\ ret = ""
    /\ prev_pre = _pre_render_estimate
    /\ prev_cal = calibration_factor
    /\ in_render = TRUE
    /\ carried = FALSE
    /\ ticks = 1
    /\ renders = 1
    /\ activities_file = JDoc("absent", "missing", << >>)
    /\ TIME_ACTIVITIES = _load_time_activities(activities_file).table
    /\ single_time = None
    /\ anim_time = None
    /\ single_activity = ""
    /\ anim_activity = ""
    /\ seconds = None
    /\ activity = ""

NextCalibrate ==
    \/ HostComplete
    \/ SetAutoCalibrate

SpecCalibrate == InitCalibrate /\ [][NextCalibrate]_vars

(***************************************************************************)
(* The panel outside a render: the module is imported with some document   *)
(* at time_activities.json, the user has some scene and calibration        *)
(* factor, and draw_main_panel shows the estimates and activity messages.  *)
(***************************************************************************)
\* the items of a document: a number and a message; one key missing, zero
\* or not a number, or empty; not a mapping
Thresholds == {JInt(-5), JInt(10), JInt(30)}

Suggestions == {JStr("a"), JStr("b")}

Items ==
    {JItem(th, sg) : th \in Thresholds, sg \in Suggestions}
    \cup {JItem(th, JStr("a")) : th \in {JMissing, JInt(0), JStr("10")}}
    \cup {JItem(JInt(10), sg) : sg \in {JMissing, JStr("")}}
    \cup {JScalarItem}

ItemLists == UNION {[1..n -> Items] : n \in 0..MaxItems}

Documents ==
    {JDoc("absent", "missing", << >>),
     JDoc("invalid", "missing", << >>),
     JDoc("array", "missing", << >>),
     JDoc("object", "missing", << >>),
     JDoc("object", "null", << >>)}
    \cup {JDoc("object", "array", items) : items \in ItemLists}

\* the times looked up: around the thresholds of the documents
LookupTimes ==
    {QInt(-5), QInt(0), Q(1, 2), QInt(10), Q(21, 2), QInt(30)}

Engines ==
    {"CYCLES", "BLENDER_EEVEE_NEXT", "BLENDER_EEVEE", "BLENDER_WORKBENCH"}

SampleCounts == {1, 128, 4096}

Percentages == {50, 100}

\* the host keeps 0 <= frame_start <= frame_end
FrameRanges == {<<fs, fe>> \in (0..1) \X (0..MaxFrame) : fs <= fe}

\* a scene of the panel: the sample count of both engines, the resolution
\* percentage, whether the scene is heavy (meshes, vertices, lights, volumes)
\* and whether the engines' options are on
PanelScene(engine, samples, pct, heavy, options, range) ==
    [Scene(engine, range[1], range[2], range[1]) EXCEPT
        !.samples = samples,
        !.taa_render_samples = samples,
        !.resolution_percentage = pct,
        !.mesh_count = IF heavy THEN 200 ELSE 0,
        !.total_verts = IF heavy THEN 1000000 ELSE 0,
        !.light_count = IF heavy THEN 20 ELSE 0,
        !.volume_count = IF heavy THEN 10 ELSE 0,
        !.use_adaptive_sampling = options,
        !.use_fast_gi = options,
        !.use_denoising = options,
        !.use_volumetric_lights = options,
        !.use_ssr = options,
        !.use_gtao = options]

PanelScenes ==
    {PanelScene(engine, samples, pct, heavy, options, range) :
        engine \in Engines, samples \in SampleCounts, pct \in Percentages,
        heavy \in BOOLEAN, options \in BOOLEAN, range \in FrameRanges}

\* the limits of the preference and its default
PanelFactors == {Q(1, 10), QInt(2), QInt(50)}

InitPanel ==
    /\ _frame_start = << >>
    /\ _total_start = None
    /\ _first_rendered_frame = None
    /\ _last_frame_time = QInt(0)
    /\ _last_eta_human = "AWAITING RENDER"
    /\ _last_eta_HHMMSS = "AWAITING RENDER"
    /\ _progress = QInt(0)
    /\ _is_rendering = FALSE
    /\ _total_time = None
    /\ _avg_time = None
    /\ _single_frame_render = FALSE
    /\ _single_frame_start = None
    /\ _detected_animation = FALSE
    /\ _pre_render_estimate = None
    /\ auto_calibrate = TRUE
    /\ persistent_progress = FALSE
    /\ \/ /\ activities_file \in Documents
          /\ scene = Scene("CYCLES", 1, 1, 1)
          /\ calibration_factor = QInt(2)
       \/ /\ activities_file = JDoc("absent", "missing", << >>)
          /\ scene \in PanelScenes
          /\ calibration_factor \in PanelFactors
    /\ TIME_ACTIVITIES = _load_time_activities(activities_file).table
    /\ exc = _load_time_activities(activities_file).exc
    /\ now = QInt(1)
    /\ host = "idle"
    /\ host_anim = FALSE
    /\ event = "load"
    /\ ret = ""
    /\ prev_pre = None
    /\ prev_cal = calibration_factor
    /\ in_render = FALSE
    /\ carried = FALSE
    /\ ticks = 0
    /\ renders = 0
    /\ single_time = None
    /\ anim_time = None
    /\ single_activity = ""
    /\ anim_activity = ""
    /\ seconds = None
    /\ activity = ""

\* the import of the module went through
Imported == _load_time_activities(activities_file).exc = ""

\* draw_main_panel while no render is active: the two estimates, then the
\* two activity messages; an exception ends the draw where it is raised
DrawPanel ==
    /\ Imported
    /\ ~_is_rendering
    /\ LET st == estimate_single_frame_time(scene, calibration_factor)
           at == estimate_animation_time(scene, calibration_factor)
           sa == get_activity_for_time(TIME_ACTIVITIES, st)
           aa == get_activity_for_time(TIME_ACTIVITIES, at)
       IN  /\ single_time' = st
           /\ anim_time' = at
           /\ single_activity' = IF sa.exc = "" THEN sa.value
                                  ELSE single_activity
           /\ anim_activity' = IF sa.exc = "" /\ aa.exc = "" THEN aa.value
                                ELSE anim_activity
           /\ exc' = IF sa.exc # "" THEN sa.exc ELSE aa.exc
    /\ UNCHANGED <<lifecycle, prefs, hostv, in_render, ticks, renders, advisor,
                   seconds, activity>>
    /\ Hist("draw")
    /\ ret' = ""

\* get_activity_for_time on a remaining time
Advise ==
    /\ Imported
    /\ \E s \in LookupTimes :
          LET r == get_activity_for_time(TIME_ACTIVITIES, s)
          IN  /\ seconds' = s
              /\ activity' = IF r.exc = "" THEN r.value ELSE activity
              /\ exc' = r.exc
    /\ UNCHANGED <<lifecycle, prefs, hostv, in_render, ticks, renders, advisor,
                   single_time, anim_time, single_activity, anim_activity>>
    /\ Hist("advise")
    /\ ret' = ""

NextPanel ==
    \/ DrawPanel
    \/ Advise

SpecPanel == InitPanel /\ [][NextPanel]_vars

(***************************************************************************)
(* Properties.                                                             *)
(***************************************************************************)
Clamp(x, lo, hi) == QMax(lo, QMin(hi, x))

\* C1: a Cancel event leaves the pre-render estimate null and the
\* calibration factor as it found it, also when an estimate had been captured.
C1_CancelClearsEstimate ==
    event = "cancel" =>
        /\ _pre_render_estimate = None
        /\ calibration_factor = prev_cal

C1_Witness == event = "cancel" /\ prev_pre # None

\* C2: the calibration factor is within [0.1, 50.0] in every reachable state.
C2_FactorInRange ==
    /\ QLe(Q(1, 10), calibration_factor)
    /\ QLe(calibration_factor, QInt(50))

\* a calibration that hit the upper clamp
C2_Witness ==
    /\ event = "complete"
    /\ prev_pre # None
    /\ calibration_factor # prev_cal
    /\ calibration_factor = QInt(50)

\* C3: when Complete calibrates with old factor F, estimate E > 0 and
\* observed total A > 0, the new factor is clamp((F + F*(A/E))/2, 0.1, 50.0).
C3_CalibrationFormula ==
    [][(/\ event' = "complete"
        /\ ~_single_frame_render
        /\ auto_calibrate
        /\ _pre_render_estimate # None
        /\ QLt(QInt(0), _pre_render_estimate)
        /\ QLt(QInt(0), _total_time'))
       => calibration_factor' =
              Clamp(QDiv(QAdd(calibration_factor,
                              QMul(calibration_factor,
                                   QDiv(_total_time', _pre_render_estimate))),
                         QInt(2)),
                    Q(1, 10), QInt(50))]_vars

\* a calibration that moved the factor strictly inside the range
C3_Witness ==
    /\ event = "complete"
    /\ prev_pre # None
    /\ calibration_factor # prev_cal
    /\ QLt(Q(1, 10), calibration_factor)
    /\ QLt(calibration_factor, QInt(50))

\* C4: the calibration factor changes only in a Complete event handled in
\* animation mode with auto-calibrate enabled, an estimate captured, and the
\* estimate and the observed total both positive.
C4_FactorChangesOnlyAtEligibleComplete ==
    [][(calibration_factor' # calibration_factor)
       => /\ event' = "complete"
          /\ ~_single_frame_render
          /\ auto_calibrate
          /\ _pre_render_estimate # None
          /\ QLt(QInt(0), _pre_render_estimate)
          /\ QLt(QInt(0), _total_time')]_vars

\* the factor changed, in a render that had been running as an animation
C4_Witness ==
    /\ event = "complete"
    /\ calibration_factor # prev_cal
    /\ _first_rendered_frame # None
    /\ _avg_time # _total_time

\* C5 as stated: is_rendering is true iff the host is between its Init event
\* and the matching Complete or Cancel.
C5_RenderingIffBetweenInitAndTerminal ==
    _is_rendering <=> host \in {"init", "frame", "gap"}

\* C5: is_rendering is true iff a render is open: armed by an accepted
\* Reset/Start command or announced by Init, whichever came first, and not
\* yet ended by Complete or Cancel.
C5_RenderingIffOpen == _is_rendering <=> in_render

\* armed by the command, before the host's Init
C5_Witness == event = "cmd_single" /\ host = "requested" /\ _is_rendering

\* C6: first_rendered_frame is null until the render's first Pre-frame, which
\* sets it to that event's frame; no later event of the render changes it.
C6_FirstFrameSetOnce ==
    /\ [](host \in {"requested", "init"} => _first_rendered_frame = None)
    /\ [](host \in {"frame", "gap"} => _first_rendered_frame # None)
    /\ [][(event' = "pre" /\ host = "init")
          => _first_rendered_frame' = <<scene'.frame_current>>]_vars
    /\ [][(host \in {"frame", "gap"})
          => _first_rendered_frame' = _first_rendered_frame]_vars

\* the second Pre-frame of an animation has left the first frame in place
C6_Witness ==
    /\ event = "pre"
    /\ host = "frame"
    /\ scene.frame_current = 2
    /\ _first_rendered_frame = <<1>>

\* the Pre-frame events the host has fired in its current render
PreCount ==
    IF host_anim THEN scene.frame_current - scene.frame_start + 1 ELSE 1

\* C7: detected_animation is false after Init and after the first Pre-frame,
\* true from the second Pre-frame on, and goes back to false only at the
\* terminal event.
C7_DetectedAtSecondPre ==
    /\ [](host \in {"requested", "init"} => ~_detected_animation)
    /\ [](host \in {"frame", "gap"} => (_detected_animation <=> PreCount >= 2))
    /\ [][(_detected_animation /\ ~_detected_animation')
          => event' \in {"complete", "cancel"}]_vars

\* after the second Pre-frame, the flag is up
C7_Witness ==
    /\ event = "pre"
    /\ host = "frame"
    /\ PreCount = 2
    /\ _detected_animation

\* C8 as stated: the estimate is non-null only with auto-calibration enabled
\* in a multi-frame animation, is cleared only at Complete, and a terminal
\* event delivered again does not change the calibration factor.
C8_EstimateOnlyEnabledMultiFrameClearedAtComplete ==
    /\ [](_pre_render_estimate # None
          => /\ auto_calibrate
             /\ host_anim
             /\ scene.frame_end > scene.frame_start)
    /\ [][(_pre_render_estimate # None /\ _pre_render_estimate' = None)
          => event' = "complete"]_vars
    /\ [][(event' \in {"complete_again", "cancel_again"})
          => calibration_factor' = calibration_factor]_vars

\* C8: the estimate is non-null only while a render is open with the
\* single-frame flag down; it is captured only with auto-calibration enabled,
\* by the animation command or by a render's second Pre-frame; it is cleared
\* by the render's terminal event, Complete or Cancel, and by nothing else; a
\* terminal event delivered again does not change the calibration factor.
C8_EstimateLifecycle ==
    /\ [](_pre_render_estimate # None
          => _is_rendering /\ ~_single_frame_render)
    /\ [][(_pre_render_estimate' # _pre_render_estimate
           /\ _pre_render_estimate' # None)
          => /\ auto_calibrate
             /\ _pre_render_estimate = None
             /\ \/ event' = "cmd_animation"
                \/ event' = "pre" /\ ~_detected_animation
                                  /\ _detected_animation']_vars
    /\ [][(event' \in Terminal) => _pre_render_estimate' = None]_vars
    /\ [][(_pre_render_estimate # None /\ _pre_render_estimate' = None)
          => event' \in {"complete", "cancel"}]_vars
    /\ [][(event' \in {"complete_again", "cancel_again"})
          => calibration_factor' = calibration_factor]_vars

\* Complete delivered again after a render that had calibrated
C8_Witness ==
    /\ event = "complete_again"
    /\ calibration_factor \notin InitialFactors
    /\ renders = 1

\* C9: after a Post-frame with frame duration D and R = frame_end - current
\* frame, both ETA strings are format(D * R) when R > 0 and "Finishing..."
\* otherwise.
C9_EtaFromLastFrame ==
    event = "post" =>
        LET cur == scene.frame_current
            D   == QSub(now, _frame_start[cur])
            R   == scene.frame_end - cur
        IN  IF R > 0
            THEN /\ _last_eta_HHMMSS = format_time_HHMMSS(QMul(D, QInt(R)))
                 /\ _last_eta_human = format_time_human(QMul(D, QInt(R)))
            ELSE /\ _last_eta_HHMMSS = "Finishing..."
                 /\ _last_eta_human = "Finishing..."

\* the first frame of two took 45030.5 s
C9_Witness ==
    /\ event = "post"
    /\ scene.frame_end - scene.frame_current = 1
    /\ _last_frame_time = Q(90061, 2)
    /\ _last_eta_HHMMSS = "12:30:30"
    /\ _last_eta_human = "12 hours, 30 minutes, 30 seconds"

\* C10: a Cancel delivered after Complete, with no new render started, leaves
\* the lifecycle state unchanged.
C10_SecondTerminalIsNoOp ==
    [][(event = "complete" /\ event' = "cancel_again")
       => UNCHANGED lifecycle]_vars

\* C11: when total-frames-in-run = frame_end - first_rendered_frame + 1 is 0,
\* Post-frame and Complete finish without error and divide by 1: progress is
\* the frame index, the average is the total.
C11_ZeroFrameRangeGuarded ==
    /\ [][(/\ event' = "post"
           /\ _first_rendered_frame # None
           /\ scene.frame_end - _first_rendered_frame[1] + 1 = 0)
          => /\ exc' = ""
             /\ _progress' =
                    QInt(scene.frame_current - _first_rendered_frame[1] + 1)]_vars
    /\ [][(/\ event' = "complete"
           /\ ~_single_frame_render
           /\ _first_rendered_frame # None
           /\ scene.frame_end - _first_rendered_frame[1] + 1 = 0)
          => /\ exc' = ""
             /\ _avg_time' = _total_time']_vars

\* C12 as stated: a Post-frame for a frame with no Pre-frame in this render
\* leaves the last-frame duration, both ETA strings and the progress as they
\* were.
C12_UnmatchedPostIsNoOp ==
    [][(event' = "post_unmatched")
       => UNCHANGED <<_last_frame_time, _last_eta_human, _last_eta_HHMMSS,
                      _progress>>]_vars

\* C12: a Post-frame that arrives while no first rendered frame is recorded
\* (no Pre-frame since the render was armed or announced) raises nothing and
\* changes nothing: no ETA is produced, and the last-frame duration, both ETA
\* strings and the progress keep their values.
C12_PostBeforeAnyPreIsNoOp ==
    [][(event' \in {"post", "post_unmatched"} /\ _first_rendered_frame = None)
       => /\ exc' = ""
          /\ UNCHANGED <<lifecycle, calibration_factor>>]_vars

\* a Post-frame right after Init, in a second render: the first render's
\* frame-start entries are still in the map
C12_Witness ==
    /\ event = "post_unmatched"
    /\ host = "init"
    /\ _first_rendered_frame = None
    /\ _frame_start # << >>
    /\ _last_eta_human = "Calculating ETA"

\* C13: a command invoked while a render is active reports busy (CANCELLED)
\* and changes neither the lifecycle state nor the host's job; otherwise it
\* reports FINISHED, leaves is_rendering true and the single-frame flag up
\* exactly for the single-frame command, and asks the host for a render in the
\* command's mode.  (A command step is one that records a command and is not
\* the user's edit of a preference.)
C13_CommandsBusyOrArm ==
    /\ [][(/\ event' \in {"busy", "cmd_animation", "cmd_single"}
           /\ auto_calibrate' = auto_calibrate
           /\ _is_rendering)
          => /\ event' = "busy"
             /\ ret' = "CANCELLED"
             /\ UNCHANGED <<lifecycle, host, host_anim>>]_vars
    /\ [][(/\ event' \in {"busy", "cmd_animation", "cmd_single"}
           /\ auto_calibrate' = auto_calibrate
           /\ ~_is_rendering)
          => /\ event' # "busy"
             /\ ret' = "FINISHED"
             /\ _is_rendering'
             /\ _single_frame_render' = (event' = "cmd_single")
             /\ host' = "requested"
             /\ host_anim' = (event' = "cmd_animation")]_vars

\* a command refused while a frame of an animation is rendering
C13_Witness ==
    /\ event = "busy"
    /\ ret = "CANCELLED"
    /\ host = "frame"
    /\ host_anim
    /\ _first_rendered_frame # None

\* C14: a lookup returns the message of the greatest threshold not exceeding
\* the input: for adjacent entries (t1, m1), (t2, m2) of the loaded table with
\* t1 < t2, an input in [t1, t2) returns m1, and a positive input below the
\* smallest threshold returns the first entry's message.
C14_LookupGreatestThresholdNotExceeding ==
    (event = "advise" /\ exc = "") =>
        LET T == TIME_ACTIVITIES IN
        /\ \A i \in 1..(Len(T) - 1) :
               (/\ T[i][1].t = "int"
                /\ T[i + 1][1].t = "int"
                /\ T[i][1].n < T[i + 1][1].n
                /\ QLe(QInt(T[i][1].n), seconds)
                /\ QLt(seconds, QInt(T[i + 1][1].n)))
               => activity = T[i][2]
        /\ (/\ QLt(QInt(0), seconds)
            /\ T[1][1].t = "int"
            /\ QLt(seconds, QInt(T[1][1].n)))
           => activity = T[1][2]

\* C15: a lookup of seconds <= 0 returns "Instant render!" and raises
\* nothing, whatever the table holds.
C15_NonPositiveIsInstant ==
    (event = "advise" /\ QLe(seconds, QInt(0)))
        => activity = "Instant render!" /\ exc = ""

\* a negative time looked up in a table whose thresholds are strings
C15_Witness ==
    /\ event = "advise"
    /\ seconds = QInt(-5)
    /\ TIME_ACTIVITIES[1][1].t = "str"
    /\ activity = "Instant render!"

\* an item the loader is to drop
Malformed(item) ==
    \/ item.t # "object"
    \/ item.threshold.t # "int"
    \/ item.threshold.n <= 0
    \/ item.suggestion.t # "str"
    \/ item.suggestion.s = ""

\* C16: the loaded table holds no entry with a non-positive threshold or an
\* empty suggestion, is sorted ascending by threshold, and is the built-in
\* table of 9 entries when the document has no well-formed item.
C16_LoadedTableWellFormedSorted ==
    Imported =>
        LET T == TIME_ACTIVITIES IN
        /\ \A i \in 1..Len(T) :
               T[i][1].t = "int" /\ T[i][1].n > 0 /\ T[i][2] # ""
        /\ \A i \in 1..(Len(T) - 1) : T[i][1].n <= T[i + 1][1].n
        /\ (\A i \in 1..Len(activities_file.items) :
                Malformed(activities_file.items[i]))
           => T = default_activities /\ Len(T) = 9

\* C17: whatever the document, the import raises nothing and leaves a table
\* with entries, and no later lookup raises.
C17_LoadAndLookupNeverFail ==
    /\ Imported
    /\ Len(TIME_ACTIVITIES) > 0
    /\ exc = ""

\* C18: the single-frame estimate is at least 1 for Cycles and at least 0.5
\* for EEVEE.
C18_EstimateAtLeastFloor ==
    event = "draw" =>
        /\ scene.engine = "CYCLES" => QLe(QInt(1), single_time)
        /\ scene.engine \in {"BLENDER_EEVEE_NEXT", "BLENDER_EEVEE"}
               => QLe(Q(1, 2), single_time)

\* an EEVEE estimate held up by the floor: one sample at factor 0.1
C18_Witness ==
    /\ event = "draw"
    /\ scene.engine = "BLENDER_EEVEE_NEXT"
    /\ scene.taa_render_samples = 1
    /\ calibration_factor = Q(1, 10)
    /\ single_time = Q(1, 2)

\* C19: the animation estimate is the single-frame estimate of the same scene
\* times frame_end - frame_start + 1.
C19_AnimationIsSingleTimesFrames ==
    event = "draw" =>
        anim_time =
            QMul(single_time, QInt(scene.frame_end - scene.frame_start + 1))

\* three frames of a heavy Cycles scene, above the floor
C19_Witness ==
    /\ event = "draw"
    /\ scene.engine = "CYCLES"
    /\ scene.frame_end - scene.frame_start = 2
    /\ QLt(QInt(1), single_time)
    /\ anim_time # single_time

C21_CompleteClearsTransients ==
    event = "complete" =>
        /\ _frame_start = << >>
        /\ _total_start = None
        /\ _first_rendered_frame = None
        /\ ~_single_frame_render
        /\ _single_frame_start = None
        /\ ~_detected_animation
        /\ _pre_render_estimate = None
        /\ ~_is_rendering

\* C22: Reset/Start clears the total elapsed and the average per-frame time
\* when persistent progress is off and leaves them unchanged when it is on;
\* a summary carried over a Reset/Start keeps its value until the next
\* Complete.
C22_SummaryKeptUntilComplete ==
    /\ [][(event' \in {"cmd_animation", "cmd_single"})
          => IF persistent_progress
             THEN UNCHANGED <<_total_time, _avg_time>>
             ELSE _total_time' = None /\ _avg_time' = None]_vars
    /\ [][(carried /\ event' # "complete")
          => UNCHANGED <<_total_time, _avg_time>>]_vars

\* what reset_render_state(persistent_progress, True) followed by
\* render_init_handler leaves in the fields that hold no timestamp
ResetSingleThenInit ==
    [_frame_start |-> << >>,
     _first_rendered_frame |-> None,
     _last_frame_time |-> QInt(0),
     _progress |-> QInt(0),
     _detected_animation |-> FALSE,
     _pre_render_estimate |-> None,
     _total_time |-> IF ~persistent_progress THEN None ELSE _total_time,
     _avg_time |-> IF ~persistent_progress THEN None ELSE _avg_time,
     _last_eta_human |-> "Calculating ETA",
     _last_eta_HHMMSS |-> "Calculating ETA",
     _is_rendering |-> TRUE,
     _single_frame_render |-> TRUE]

\* C23: an Init event that arrives while idle leaves the lifecycle state that
\* Reset/Start in single-frame mode followed by Init would leave, in every
\* field other than the timestamps: per-frame start map, first rendered
\* frame, progress, flags, pre-render estimate, ETA strings, summary.
C23_InitWhileIdleIsResetThenInit ==
    [][(event' = "init" /\ ~_is_rendering)
       => LET r == ResetSingleThenInit
          IN  /\ _frame_start' = r._frame_start
              /\ _first_rendered_frame' = r._first_rendered_frame
              /\ _last_frame_time' = r._last_frame_time
              /\ _progress' = r._progress
              /\ _detected_animation' = r._detected_animation
              /\ _pre_render_estimate' = r._pre_render_estimate
              /\ _total_time' = r._total_time
              /\ _avg_time' = r._avg_time
              /\ _last_eta_human' = r._last_eta_human
              /\ _last_eta_HHMMSS' = r._last_eta_HHMMSS
              /\ _is_rendering' = r._is_rendering
              /\ _single_frame_render' = r._single_frame_render]_vars

\* C24: the second Pre-frame of a render clears the single-frame flag and
\* captures the animation estimate if none is captured and auto-calibrate is
\* enabled; no Pre-frame changes an estimate that is already captured; a
\* render that has reached a second frame takes the animation branch at
\* Complete.
C24_SecondPreConfirmsAnimation ==
    /\ [][(host = "gap" /\ event' = "pre" /\ PreCount' = 2)
          => /\ ~_single_frame_render'
             /\ _pre_render_estimate' =
                    IF _pre_render_estimate = None /\ auto_calibrate
                    THEN estimate_animation_time(scene', calibration_factor)
                    ELSE _pre_render_estimate]_vars
    /\ [][(host \in {"init", "gap"} /\ event' = "pre"
           /\ _pre_render_estimate # None)
          => _pre_render_estimate' = _pre_render_estimate]_vars
    /\ [][(host = "gap" /\ event' = "complete" /\ PreCount >= 2)
          => /\ ~_single_frame_render
             /\ _last_eta_HHMMSS' =
                    "RENDER COMPLETE | Total: "
                        \o format_time_HHMMSS(_total_time')
                        \o ", Avg: " \o format_time_HHMMSS(_avg_time')]_vars

\* a render started from the host's menu has reached a second frame, captured
\* its estimate there and calibrated at Complete
C24_Witness ==
    /\ event = "complete"
    /\ _single_frame_start # None
    /\ scene.frame_current >= 2
    /\ prev_pre # None
    /\ calibration_factor # prev_cal

\* C25: the fractional progress is within [0, 1] in every reachable state.
C25_ProgressInUnitInterval ==
    /\ QLe(QInt(0), _progress)
    /\ QLe(_progress, QInt(1))

\* C26: when auto-calibration is applied with old factor F in [0.1, 50],
\* estimate E > 0 and actual time A > 0, the new factor is >= F if A >= E,
\* <= F if A <= E, and equal to F if A = E.
C26_CalibrationFollowsError ==
    [][(/\ host = "gap"
        /\ event' = "complete"
        /\ ~_single_frame_render
        /\ auto_calibrate
        /\ _pre_render_estimate # None
        /\ QLt(QInt(0), _pre_render_estimate)
        /\ QLt(QInt(0), _total_time')
        /\ QLe(Q(1, 10), calibration_factor)
        /\ QLe(calibration_factor, QInt(50)))
       => /\ QLe(_pre_render_estimate, _total_time')
                => QLe(calibration_factor, calibration_factor')
          /\ QLe(_total_time', _pre_render_estimate)
                => QLe(calibration_factor', calibration_factor)
          /\ _total_time' = _pre_render_estimate
                => calibration_factor' = calibration_factor]_vars

\* the render took longer than estimated and the factor went up
C26_Witness ==
    /\ event = "complete"
    /\ prev_pre # None
    /\ QLt(prev_pre, _total_time)
    /\ QLt(prev_cal, calibration_factor)
    /\ QLt(calibration_factor, QInt(50))

\* C27: whenever is_rendering is false, the single-frame flag is false,
\* detected_animation is false and the pre-render estimate is null.
C27_IdleHasNoRenderMode ==
    ~_is_rendering =>
        /\ ~_single_frame_render
        /\ ~_detected_animation
        /\ _pre_render_estimate = None

\* the second render of the session, an animation that had captured an
\* estimate and confirmed animation mode, has completed
C27_Witness ==
    /\ ~_is_rendering
    /\ event = "complete"
    /\ prev_pre # None
    /\ scene.frame_current >= 2
    /\ renders = 2

=============================================================================
